---- MODULE Spec2Model ----
(***************************************************************************)
(* Model of packages/scheduler/src/SchedulerMinHeap.js: an array-backed   *)
(* binary min-heap of nodes {id, sortIndex} with peek, push and pop.      *)
(*                                                                         *)
(* The JavaScript array is a sequence of slots; JS index i is position    *)
(* i + 1 of the sequence.  A slot holds a node or the value `undefined`   *)
(* (an array read past the end yields `undefined`, and siftDown can store *)
(* what it read).  Reading .sortIndex of `undefined` raises a TypeError;  *)
(* an operation that raises leaves the array as mutated so far.           *)
(***************************************************************************)
EXTENDS Integers, Sequences, FiniteSets, TLC

\* Bounds of the model: ids are drawn from 1..MaxId, sortIndex from 1..MaxSort.
MaxId == 4
MaxSort == 3

\* Bound of SpecDeep: the number of nodes pushed, with ids 1, 2, ... in push order.
MaxDeepId == 8

Ids == 1..MaxId
SortIndexes == 1..MaxSort

\* type Node = { id: number, sortIndex: number, ... }
Node == [id : Ids, sortIndex : SortIndexes]

\* The JS values `undefined` and `null`, and the outcome "a TypeError was thrown".
Undefined == [kind |-> "undefined"]
Null == [kind |-> "null"]
TypeError == [kind |-> "TypeError"]

IsNode(v) == DOMAIN v = {"id", "sortIndex"}

\* heap[i] of a JS array: the slot's value, `undefined` past the end.
At(h, i) == IF i >= 0 /\ i < Len(h) THEN h[i + 1] ELSE Undefined

\* heap[i] = v for an index inside the array.
Store(h, i, v) == [h EXCEPT ![i + 1] = v]

\* A faulty parent index that omits the shift: i - 1 (sensitivity check of C19).
ParentIndex_NoShift(i) == i - 1

\* (i - 1) >>> 1 for i > 0.
ParentIndex(i) == (i - 1) \div 2

\* length >>> 1.
HalfLength(n) == n \div 2

\* A faulty compare that breaks ties by descending id (sensitivity check of C13).
compare_TieByDescendingId(a, b) ==
  LET diff == a.sortIndex - b.sortIndex
  IN  IF diff # 0 THEN diff ELSE b.id - a.id

\* compare(a, b): the sortIndex difference, the id difference when it is 0.
compare(a, b) ==
  LET diff == a.sortIndex - b.sortIndex
  IN  IF diff # 0 THEN diff ELSE a.id - b.id

\* compare(a, b) reads a.sortIndex and b.sortIndex: it throws on `undefined`.
compareThrows(a, b) == ~IsNode(a) \/ ~IsNode(b)

\* A faulty iteration of siftUp that stores the node in the parent's slot and
\* forgets heap[index] = parent (sensitivity check of C18).
siftUpStep_DropsParent(h, node, index) ==
  LET parentIndex == ParentIndex(index)
      parent == At(h, parentIndex)
  IN  IF compareThrows(parent, node)
      THEN [kind |-> "throw", heap |-> h, index |-> index]
      ELSE IF compare(parent, node) > 0
           THEN [kind |-> "swap", heap |-> Store(h, parentIndex, node),
                 index |-> parentIndex]
           ELSE [kind |-> "stop", heap |-> h, index |-> index]

\* One iteration of siftUp's loop at `index` > 0 (lines 70-83): kind is "swap"
\* (the parent moved down to `index`, the node up to the new index), "stop"
\* (return) or "throw" (compare raised a TypeError).
siftUpStep(h, node, index) ==
  LET parentIndex == ParentIndex(index)
      parent == At(h, parentIndex)
  IN  IF compareThrows(parent, node)
      THEN [kind |-> "throw", heap |-> h, index |-> index]
      ELSE IF compare(parent, node) > 0
           THEN [kind |-> "swap",
                 heap |-> Store(Store(h, parentIndex, node), index, parent),
                 index |-> parentIndex]
           ELSE [kind |-> "stop", heap |-> h, index |-> index]

\* siftUp(heap, node, i): the loop from `index`; the result is the array and
\* whether a TypeError was thrown.
RECURSIVE siftUp(_, _, _)
siftUp(h, node, index) ==
  IF index > 0
  THEN LET s == siftUpStep(h, node, index)
       IN  IF s.kind = "swap"
           THEN siftUp(s.heap, node, s.index)
           ELSE [heap |-> h, threw |-> s.kind = "throw"]
  ELSE [heap |-> h, threw |-> FALSE]

\* The values `index` takes in siftUp(h, node, index): the start and the index
\* after each swap.
RECURSIVE siftUpRun(_, _, _)
siftUpRun(h, node, index) ==
  IF index > 0
  THEN LET s == siftUpStep(h, node, index)
       IN  <<index>> \o (IF s.kind = "swap" THEN siftUpRun(s.heap, node, s.index) ELSE <<>>)
  ELSE <<index>>

\* One iteration of siftDown's loop at `index` < halfLength (lines 110-142).
\* For a "swap", `up` is the index whose value was stored in heap[index] and
\* `index` is the index the node was stored at, where the loop goes on.
siftDownStep(h, node, index) ==
  LET length == Len(h)
      leftIndex == (index + 1) * 2 - 1
      left == At(h, leftIndex)
      rightIndex == leftIndex + 1
      right == At(h, rightIndex)
      Throw == [kind |-> "throw", heap |-> h, index |-> index, up |-> index]
  IN  IF compareThrows(left, node)
      THEN Throw
      ELSE IF compare(left, node) < 0
           THEN IF rightIndex < length /\ compareThrows(right, left)
                THEN Throw
                ELSE IF rightIndex < length /\ compare(right, left) < 0
                     THEN [kind |-> "swap",
                           heap |-> Store(Store(h, index, right), rightIndex, node),
                           index |-> rightIndex, up |-> rightIndex]
                     ELSE [kind |-> "swap",
                           heap |-> Store(Store(h, index, right), leftIndex, node),
                           index |-> leftIndex, up |-> rightIndex]
           ELSE IF rightIndex < length /\ compareThrows(right, node)
                THEN Throw
                ELSE IF rightIndex < length /\ compare(right, node) # 0
                     THEN [kind |-> "swap",
                           heap |-> Store(Store(h, index, right), rightIndex, node),
                           index |-> rightIndex, up |-> rightIndex]
                     ELSE [kind |-> "stop", heap |-> h, index |-> index, up |-> index]

\* siftDown(heap, node, i): the loop from `index`.
RECURSIVE siftDown(_, _, _)
siftDown(h, node, index) ==
  IF index < HalfLength(Len(h))
  THEN LET s == siftDownStep(h, node, index)
       IN  IF s.kind = "swap"
           THEN siftDown(s.heap, node, s.index)
           ELSE [heap |-> h, threw |-> s.kind = "throw"]
  ELSE [heap |-> h, threw |-> FALSE]

\* A faulty peek that omits the emptiness test (sensitivity check of C7).
peek_NoEmptyTest(h) == At(h, 0)

\* peek(heap).
peek(h) == IF Len(h) = 0 THEN Null ELSE At(h, 0)

\* push(heap, node): the array afterwards and whether it threw.
push(h, node) == siftUp(Append(h, node), node, Len(h))

\* A faulty pop that reads the last element as heap[length - 1] instead of
\* removing it with heap.pop() (sensitivity check of C6).
pop_KeepsLast(h) ==
  IF Len(h) = 0
  THEN [heap |-> h, ret |-> Null]
  ELSE LET first == At(h, 0)
           last == h[Len(h)]
       IN  IF last # first
           THEN LET r == siftDown(Store(h, 0, last), last, 0)
                IN  [heap |-> r.heap, ret |-> IF r.threw THEN TypeError ELSE first]
           ELSE [heap |-> h, ret |-> first]

\* pop's test `last !== first` on a non-empty array (line 170).
popLastIsNotFirst(h) == h[Len(h)] # At(h, 0)

\* The array pop hands to siftDown(heap, last, 0): the last element removed
\* and stored at index 0 (lines 167, 172).
popSiftInput(h) == Store(SubSeq(h, 1, Len(h) - 1), 0, h[Len(h)])

\* The iterations siftDown(h, node, index) executes: the array and the index at
\* the start of each.
RECURSIVE siftDownRun(_, _, _)
siftDownRun(h, node, index) ==
  IF index < HalfLength(Len(h))
  THEN LET s == siftDownStep(h, node, index)
       IN  <<[heap |-> h, index |-> index]>>
             \o (IF s.kind = "swap" THEN siftDownRun(s.heap, node, s.index) ELSE <<>>)
  ELSE <<>>

\* pop(heap): the array afterwards and the value returned (TypeError when thrown).
\* `last !== first` compares references; nodes have distinct ids, so two slot
\* values are the same reference exactly when they are equal as values.
pop(h) ==
  IF Len(h) = 0
  THEN [heap |-> h, ret |-> Null]
  ELSE LET first == At(h, 0)
           last == h[Len(h)]
           rest == SubSeq(h, 1, Len(h) - 1)
       IN  IF popLastIsNotFirst(h)
           THEN LET r == siftDown(popSiftInput(h), last, 0)
                IN  [heap |-> r.heap, ret |-> IF r.threw THEN TypeError ELSE first]
           ELSE [heap |-> rest, ret |-> first]

VARIABLES
  heap,    \* the array passed to peek, push and pop
  op,      \* the function called last: "new" (none yet), "push", "pop", "peek"
  ret,     \* what the last call returned; TypeError when it threw
  pushed,  \* the nodes passed to push so far
  popped,  \* the values returned so far by pop on a non-empty heap
  nPop,    \* the number of pop calls so far on a non-empty heap
  cmp      \* the operands and results of direct calls of compare (SpecCompare)

vars == <<heap, op, ret, pushed, popped, nPop, cmp>>

Init ==
  /\ heap = <<>>
  /\ op = "new"
  /\ ret = Undefined
  /\ pushed = {}
  /\ popped = <<>>
  /\ nPop = 0
  /\ cmp = [called |-> FALSE]

\* The number of push calls so far (every push adds a node with a fresh id).
nPush == Cardinality(pushed)

\* A call push(heap, node).
PushNode(node) ==
  /\ LET r == push(heap, node)
     IN  /\ heap' = r.heap
         /\ ret' = IF r.threw THEN TypeError ELSE Undefined
  /\ op' = "push"
  /\ pushed' = pushed \cup {node}
  /\ UNCHANGED <<popped, nPop, cmp>>

\* A call push(heap, node) with a node whose id was never used before.
Push ==
  \E node \in Node :
    /\ \A p \in pushed : p.id # node.id
    /\ PushNode(node)

\* A call pop(heap).
Pop ==
  LET r == pop(heap)
  IN  /\ heap' = r.heap
      /\ ret' = r.ret
      /\ op' = "pop"
      /\ popped' = IF Len(heap) > 0 /\ r.ret # TypeError
                   THEN Append(popped, r.ret) ELSE popped
      /\ nPop' = IF Len(heap) > 0 THEN nPop + 1 ELSE nPop
      /\ UNCHANGED <<pushed, cmp>>

\* A faulty peek that takes the root out with heap.shift() (sensitivity check
\* of C11).
Peek_ShiftsRoot ==
  /\ ret' = IF Len(heap) = 0 THEN Null ELSE Head(heap)
  /\ heap' = IF Len(heap) = 0 THEN heap ELSE Tail(heap)
  /\ op' = "peek"
  /\ UNCHANGED <<pushed, popped, nPop, cmp>>

\* A call peek(heap).
Peek ==
  /\ ret' = peek(heap)
  /\ op' = "peek"
  /\ UNCHANGED <<heap, pushed, popped, nPop, cmp>>

Next == Push \/ Pop \/ Peek

Spec == Init /\ [][Next]_vars

\* Pushing first and popping afterwards: no push once a pop has removed a node.
PushBeforePops == nPop = 0 /\ Push

NextDrain == PushBeforePops \/ Pop \/ Peek

SpecDrain == Init /\ [][NextDrain]_vars

\* Up to MaxDeepId pushes, the caller numbering the nodes 1, 2, ... in push
\* order, and pops afterwards: heaps deep enough for siftDown to go two levels.
PushDeep ==
  /\ nPop = 0
  /\ nPush < MaxDeepId
  /\ \E s \in SortIndexes : PushNode([id |-> nPush + 1, sortIndex |-> s])

NextDeep == PushDeep \/ Pop \/ Peek

SpecDeep == Init /\ [][NextDeep]_vars

\* compare applied to nodes a, b, c drawn from Node: no heap is involved.
InitCompare ==
  /\ heap = <<>>
  /\ op = "new"
  /\ ret = Undefined
  /\ pushed = {}
  /\ popped = <<>>
  /\ nPop = 0
  /\ cmp \in [a : Node, b : Node, c : Node, called : {FALSE}]

\* The calls compare(a, b), compare(b, a), compare(b, c) and compare(a, c).
Compare ==
  /\ ~cmp.called
  /\ cmp' = [a |-> cmp.a, b |-> cmp.b, c |-> cmp.c, called |-> TRUE,
             ab |-> compare(cmp.a, cmp.b), ba |-> compare(cmp.b, cmp.a),
             bc |-> compare(cmp.b, cmp.c), ac |-> compare(cmp.a, cmp.c)]
  /\ UNCHANGED <<heap, op, ret, pushed, popped, nPop>>

NextCompare == Compare

SpecCompare == InitCompare /\ [][NextCompare]_vars

----------------------------------------------------------------------------
\* Vocabulary of the properties.

\* (a.sortIndex, a.id) is lexicographically smaller than (b.sortIndex, b.id).
LexLess(a, b) ==
  \/ a.sortIndex < b.sortIndex
  \/ (a.sortIndex = b.sortIndex /\ a.id < b.id)

\* The sign of a number: -1, 0 or 1.
Sign(x) == IF x < 0 THEN 0 - 1 ELSE IF x > 0 THEN 1 ELSE 0

\* The values held by the slots of h.
Slots(h) == {h[k] : k \in 1..Len(h)}

\* The values of a sequence of returned values.
Returned(s) == {s[k] : k \in 1..Len(s)}

\* Every slot holds a node and every parent compares <= its child.
HeapProperty(h) ==
  \A i \in 1..(Len(h) - 1) :
    /\ IsNode(At(h, ParentIndex(i)))
    /\ IsNode(At(h, i))
    /\ compare(At(h, ParentIndex(i)), At(h, i)) <= 0

\* v is a node that compares <= every node held by h.
IsMinimumOf(v, h) ==
  /\ IsNode(v)
  /\ \A x \in Slots(h) : IsNode(x) => compare(v, x) <= 0

----------------------------------------------------------------------------
\* C1: after every push and pop, starting from the empty heap, every slot
\* holds a node and compare(heap[(i-1)>>>1], heap[i]) <= 0 for 0 < i < length.
C1_MinHeapProperty == HeapProperty(heap)

\* C2: a pop on a non-empty heap returns a node that compares <= every node
\* that was in the heap before the call.
C2_PopReturnsMinimum ==
  [][(op' = "pop" /\ Len(heap) > 0) => IsMinimumOf(ret', heap)]_vars

\* C3: the heap holds exactly the nodes pushed and not yet returned by pop,
\* each in one slot, and pop returns no node twice.
C3_ContentIsPushedMinusPopped ==
  /\ Slots(heap) = pushed \ Returned(popped)
  /\ Cardinality(Slots(heap)) = Len(heap)
  /\ Cardinality(Returned(popped)) = Len(popped)

\* C4: after pushing nodes with distinct ids into the empty heap and popping
\* until it is empty, the pops returned every pushed node exactly once, in
\* strictly ascending (sortIndex, id) order.
C4_DrainIsSorted ==
  (nPop > 0 /\ Len(heap) = 0) =>
    /\ Len(popped) = nPush
    /\ Returned(popped) = pushed
    /\ \A k \in 1..(Len(popped) - 1) :
         /\ IsNode(popped[k])
         /\ IsNode(popped[k + 1])
         /\ compare(popped[k], popped[k + 1]) < 0

\* C5: when a pop immediately follows a pop and both return a node, the
\* first returned node compares <= the second.
C5_ConsecutivePopsAscend ==
  [][(op = "pop" /\ IsNode(ret) /\ op' = "pop" /\ IsNode(ret'))
       => compare(ret, ret') <= 0]_vars

\* C6: every push lengthens the array by one and every pop of a non-empty
\* heap shortens it by one, so the length is pushes minus non-empty pops.
C6_LengthIsPushesMinusPops ==
  /\ Len(heap) = nPush - nPop
  /\ nPop <= nPush

C6_Witness == op = "push" /\ nPop >= 2 /\ Len(heap) >= 2

\* C7: on an empty heap peek and pop return null and leave the heap as it is.
C7_EmptyReturnsNull ==
  [][(Len(heap) = 0 /\ op' \in {"peek", "pop"})
       => (ret' = Null /\ heap' = heap /\ Len(heap') = 0)]_vars

C7_Witness == op = "pop" /\ ret = Null /\ Len(heap) = 0 /\ nPop > 0

\* C8: on a heap with at least one element peek and pop return a node that
\* was pushed; they return no value only when the element count is 0.
C8_NoValueOnlyWhenEmpty ==
  [][(Len(heap) > 0 /\ op' \in {"peek", "pop"})
       => (IsNode(ret') /\ ret' \in pushed)]_vars

\* C9: no call of push, pop or peek raises an error.
C9_NoCallThrows == ret # TypeError

\* C10: on a non-empty heap peek returns a node that compares <= every node
\* in the heap.
C10_PeekReturnsMinimum ==
  (op = "peek" /\ Len(heap) > 0) => IsMinimumOf(ret, heap)

\* C11: peek leaves the array as it is (same length, same slot values), and a
\* peek right after a peek returns the same value.
C11_PeekLeavesHeap ==
  [][op' = "peek"
       => /\ Len(heap') = Len(heap)
          /\ \A i \in 0..(Len(heap) - 1) : At(heap', i) = At(heap, i)
          /\ (op = "peek" => ret' = ret)]_vars

C11_Witness == op = "peek" /\ IsNode(ret) /\ Len(heap) >= 2

\* C12: a push onto the empty heap stores exactly the pushed node; the pop
\* after it returns that node and empties the heap; the pop after that
\* returns null.
C12_SingleElementRoundTrip ==
  [][/\ (Len(heap) = 0 /\ op' = "push")
          => (ret' # TypeError /\ Len(heap') = 1 /\ {heap'[1]} = pushed' \ pushed)
     /\ (op = "push" /\ Len(heap) = 1 /\ op' = "pop")
          => (ret' = heap[1] /\ IsNode(ret') /\ Len(heap') = 0)
     /\ (op = "pop" /\ IsNode(ret) /\ Len(heap) = 0 /\ op' = "pop")
          => (ret' = Null /\ Len(heap') = 0)]_vars

C12_Witness ==
  op = "pop" /\ ret = Null /\ nPush = 1 /\ nPop = 1 /\ popped \in Seq(pushed)

\* C13: compare(a, b) < 0 exactly when (a.sortIndex, a.id) is lexicographically
\* smaller than (b.sortIndex, b.id), it is 0 exactly when both keys are equal,
\* its sign is opposite to that of compare(b, a), and it is transitive.
C13_CompareIsTotalOrder ==
  cmp.called =>
    /\ (cmp.ab < 0) <=> LexLess(cmp.a, cmp.b)
    /\ (cmp.ab = 0) <=> (cmp.a.sortIndex = cmp.b.sortIndex /\ cmp.a.id = cmp.b.id)
    /\ Sign(cmp.ab) = 0 - Sign(cmp.ba)
    /\ (cmp.ab <= 0 /\ cmp.bc <= 0) => cmp.ac <= 0

C13_Witness ==
  /\ cmp.called
  /\ cmp.a.sortIndex = cmp.b.sortIndex /\ cmp.a.id < cmp.b.id /\ cmp.ab < 0
  /\ cmp.b.sortIndex < cmp.c.sortIndex /\ cmp.b.id > cmp.c.id /\ cmp.bc < 0

\* The iterations of the sift-down that pop(heap) runs (none when it runs none).
PopSiftRun ==
  IF Len(heap) > 0 /\ popLastIsNotFirst(heap)
  THEN siftDownRun(popSiftInput(heap), heap[Len(heap)], 0)
  ELSE <<>>

\* c is a node that compares < node.
SmallerThan(c, node) == IsNode(c) /\ IsNode(node) /\ compare(c, node) < 0

\* The children existing at `index` of h: the values at 2*index+1 and 2*index+2
\* that are inside the array.
ChildIndexes(h, index) == {i \in {2 * index + 1, 2 * index + 2} : i < Len(h)}

\* C14 at one iteration: the node goes down to a child's slot only if that
\* child is smaller than the node, and the loop stops exactly when no existing
\* child is smaller.
C14_Iteration(h, node, index) ==
  LET s == siftDownStep(h, node, index)
      NoneSmaller == \A i \in ChildIndexes(h, index) : ~SmallerThan(At(h, i), node)
  IN  /\ s.kind = "swap" => SmallerThan(At(h, s.index), node)
      /\ s.kind = "stop" => NoneSmaller
      /\ NoneSmaller => s.kind # "swap"

\* C14: in every sift-down run by pop, the node is swapped down only past a
\* child that is strictly smaller, and the sift-down stops as soon as neither
\* existing child is smaller.
C14_SwapOnlyWithSmallerChild ==
  [][op' = "pop" =>
       \A k \in 1..Len(PopSiftRun) :
         C14_Iteration(PopSiftRun[k].heap, heap[Len(heap)], PopSiftRun[k].index)]_vars

\* C15 at one iteration with both children inside the array: the right child
\* is stored in the parent position only if it compares < the left child;
\* otherwise a swap stores the left child there.
C15_Iteration(h, node, index) ==
  LET s == siftDownStep(h, node, index)
      leftIndex == 2 * index + 1
      rightIndex == 2 * index + 2
  IN  (rightIndex < Len(h) /\ s.kind = "swap") =>
        IF s.up = rightIndex
        THEN SmallerThan(At(h, rightIndex), At(h, leftIndex))
        ELSE s.up = leftIndex

\* C15: in every sift-down run by pop, where both children exist the right
\* child moves up only if it is strictly smaller than the left child, and
\* otherwise the child moved up by a swap is the left one.
C15_RightOnlyIfSmallerThanLeft ==
  [][op' = "pop" =>
       \A k \in 1..Len(PopSiftRun) :
         C15_Iteration(PopSiftRun[k].heap, heap[Len(heap)], PopSiftRun[k].index)]_vars

\* C16: every index below the length holds a node that was passed to push.
C16_StorageIsDense ==
  \A i \in 0..(Len(heap) - 1) : IsNode(At(heap, i)) /\ At(heap, i) \in pushed

\* C17: in a pop on a non-empty heap the test `last !== first` is true exactly
\* when the heap held more than one element, so the last element is moved to
\* index 0 and sifted down exactly then.
C17_ReheapifyIffMoreThanOne ==
  [][(op' = "pop" /\ Len(heap) > 0)
       => (popLastIsNotFirst(heap) <=> Len(heap) > 1)]_vars

\* C20: pop returns the value a peek right before it returns, and after the
\* pop no slot of the heap holds that value.
C20_PopReturnsPeekAndRemovesIt ==
  [][op' = "pop" => (ret' = peek(heap) /\ ret' \notin Slots(heap'))]_vars

\* The indexes on the path from index i to the root: i, (i-1)>>>1, ..., 0.
RECURSIVE AncestorPath(_)
AncestorPath(i) == IF i = 0 THEN {0} ELSE {i} \cup AncestorPath(ParentIndex(i))

\* The index on `path` whose parent index is q.
ChildOnPath(path, q) == CHOOSE c \in path : c > 0 /\ ParentIndex(c) = q

\* C18: a push on a heap of length n puts the node at an index p of the
\* ancestor path of n; every former occupant of the path from p to the parent
\* of n compared > the node and is now one step down the path; every other
\* slot is unchanged.
C18_PushChangesOnlyAncestorPath ==
  [][op' = "push" =>
       LET n == Len(heap)
           node == CHOOSE v \in pushed' \ pushed : TRUE
           path == AncestorPath(n)
       IN  /\ Len(heap') = n + 1
           /\ \E p \in path :
                /\ At(heap', p) = node
                /\ \A q \in path :
                     (p <= q /\ q < n) =>
                       /\ IsNode(At(heap, q))
                       /\ compare(At(heap, q), node) > 0
                       /\ At(heap', ChildOnPath(path, q)) = At(heap, q)
                /\ \A i \in 0..(n - 1) :
                     (i \notin path \/ i < p) => At(heap', i) = At(heap, i)]_vars

C18_Witness ==
  /\ op = "push" /\ ret # TypeError /\ Len(heap) = 4 /\ nPop = 0
  /\ compare(heap[4], heap[3]) < 0

\* floor(log2(n)) for n >= 1.
RECURSIVE Log2Floor(_)
Log2Floor(n) == IF n <= 1 THEN 0 ELSE 1 + Log2Floor(n \div 2)

\* The swaps among the iterations `run` of a sift-down of node.
SiftDownSwaps(run, node) ==
  {k \in 1..Len(run) : siftDownStep(run[k].heap, node, run[k].index).kind = "swap"}

\* C19: every push and pop ends; in siftUp the index decreases at every swap
\* and in siftDown it increases at every swap, and each makes at most
\* floor(log2(length)) swaps.
C19_SiftsTerminate ==
  [][/\ op' = "push" =>
          LET node == CHOOSE v \in pushed' \ pushed : TRUE
              run == siftUpRun(Append(heap, node), node, Len(heap))
          IN  /\ \A k \in 1..(Len(run) - 1) : run[k + 1] < run[k] /\ run[k + 1] >= 0
              /\ Len(run) - 1 <= Log2Floor(Len(heap) + 1)
              /\ ret' \in {Undefined, TypeError}
     /\ op' = "pop" =>
          LET node == heap[Len(heap)]
              run == PopSiftRun
              swaps == SiftDownSwaps(run, node)
          IN  /\ \A k \in swaps :
                   LET s == siftDownStep(run[k].heap, node, run[k].index)
                   IN  s.index > run[k].index /\ s.index < Len(run[k].heap)
              /\ Len(run) > 0 => Cardinality(swaps) <= Log2Floor(Len(heap) - 1)]_vars

C19_Witness ==
  /\ op = "pop" /\ IsNode(ret) /\ Len(heap) = 3
  /\ popped = <<ret>>

====
